---- MODULE Spec2Model ----
(***************************************************************************)
(* A model of the two programs of Nav2_gps_Cartographer.                   *)
(*                                                                         *)
(*   gpsToNav2map.py  a straight-line script: load the GPS points, project *)
(*                    them, order them around their centroid, rasterize    *)
(*                    the polygon, write map_fixed.pgm, map_fixed.png and  *)
(*                    map.yaml.                                            *)
(*   maplayer.py      main(): fetch ways, save one CSV per way, plot the   *)
(*                    layer.                                               *)
(*                                                                         *)
(* Lengths are exact integers counted in units of half a metre, so the     *)
(* script's resolution of 0.50 m is 1 unit.  Divisions are the exact       *)
(* rational quotient followed by Python's int(), which truncates towards   *)
(* zero.  Angles are compared exactly (no floating-point rounding).        *)
(***************************************************************************)
EXTENDS Integers, Sequences, FiniteSets

VARIABLES
    pc,                 \* position of the script gpsToNav2map.py
    err,                \* the exception that ended the script, or "none"
    data,               \* rows of the CSV file: <<latitude, longitude>>
    utm_points,         \* projected points <<x, y>>
    min_x, min_y, max_x, max_y,
    resolution,         \* units per cell
    padding,            \* cells
    centroid_x, centroid_y,   \* rationals <<numerator, denominator>>
    utm_points_sorted,
    perm,               \* perm[i]: the index in utm_points of utm_points_sorted[i]
    width, height,
    image,              \* [size |-> <<w, h>>, px |-> the cells holding 205]
    polygon_points,
    fs,                 \* the three artifacts on disk
    pcM,                \* position of maplayer.main
    errM,
    args,               \* parsed command line of maplayer
    water_gdf,          \* number of geometries of the fetched frame
    tags_list,          \* one entry per fetched way
    todo,               \* the part of tags_list the for loop has not visited
    file_name,          \* local of main: Unbound until the loop body ran
    disk,               \* names of the CSV files and images on disk
    fetched             \* a fetch returned normally

gpsVars == <<pc, err, data, utm_points, min_x, min_y, max_x, max_y, resolution,
             padding, centroid_x, centroid_y, utm_points_sorted, perm, width,
             height, image, polygon_points, fs>>

mainVars == <<pcM, errM, args, water_gdf, tags_list, todo, file_name, disk, fetched>>

vars == <<gpsVars, mainVars>>

----------------------------------------------------------------------------
(* Bounds of the model and the literals of the script. *)

MaxPts == 3

SrcResolution == 1

SrcPadding == 10

XCoords == {0, 1, 3}

YCoords == {0, 1}

ResSet == {-1, 0, SrcResolution, 2}

MaxPad == 1

PadSet == 0..MaxPad

None == "None"

----------------------------------------------------------------------------
(* Helpers *)

RECURSIVE SeqSum(_, _)
SeqSum(s, k) == IF s = <<>> THEN 0 ELSE Head(s)[k] + SeqSum(Tail(s), k)

RECURSIVE SeqMin(_, _)
SeqMin(s, k) ==
    IF Len(s) = 1 THEN s[1][k]
    ELSE LET m == SeqMin(Tail(s), k) IN IF s[1][k] <= m THEN s[1][k] ELSE m

RECURSIVE SeqMax(_, _)
SeqMax(s, k) ==
    IF Len(s) = 1 THEN s[1][k]
    ELSE LET m == SeqMax(Tail(s), k) IN IF s[1][k] >= m THEN s[1][k] ELSE m

Abs(a) == IF a < 0 THEN -a ELSE a

\* int(a / b) for b # 0: the quotient truncated towards zero
IntDiv(a, b) ==
    IF (a >= 0) = (b > 0) THEN Abs(a) \div Abs(b) ELSE -(Abs(a) \div Abs(b))

\* transformer.transform(lon, lat) for a row <<lat, lon>>: easting from the
\* longitude, northing from the latitude
Transform(row) == <<row[2], row[1]>>

\* the offset of a point from the centroid, scaled by the (positive)
\* denominator of the centroid: the argument of atan2 up to that factor
Offset(point, cx, cy) == <<point[1] * cx[2] - cx[1], point[2] * cy[2] - cy[1]>>

\* where atan2(dy, dx) falls in (-pi, pi]: 0 for (-pi, 0), 1 for 0,
\* 2 for (0, pi), 3 for pi
Region(d) ==
    IF d[2] < 0 THEN 0
    ELSE IF d[2] > 0 THEN 2
    ELSE IF d[1] >= 0 THEN 1 ELSE 3

\* atan2 of offset a < atan2 of offset b
AngleLess(a, b) ==
    \/ Region(a) < Region(b)
    \/ /\ Region(a) = Region(b)
       /\ Region(a) \in {0, 2}
       /\ a[1] * b[2] - a[2] * b[1] > 0

angle_less(p, q, cx, cy) == AngleLess(Offset(p, cx, cy), Offset(q, cx, cy))

\* a mutant of Insert: the new element goes before the elements of equal key
InsertUnstable(s, i, pts, cx, cy) ==
    LET k == Cardinality({p \in 1..Len(s) : angle_less(pts[s[p]], pts[i], cx, cy)})
    IN  SubSeq(s, 1, k) \o <<i>> \o SubSeq(s, k + 1, Len(s))

\* one step of the sort: index i goes after every element whose key is not
\* greater (equal keys keep their input order)
Insert(s, i, pts, cx, cy) ==
    LET k == Cardinality({p \in 1..Len(s) : ~angle_less(pts[i], pts[s[p]], cx, cy)})
    IN  SubSeq(s, 1, k) \o <<i>> \o SubSeq(s, k + 1, Len(s))

RECURSIVE SortedIdx(_, _, _, _)
SortedIdx(pts, n, cx, cy) ==
    IF n = 0 THEN <<>> ELSE Insert(SortedIdx(pts, n - 1, cx, cy), n, pts, cx, cy)

\* a mutant of GridSize: one more cell than the script allocates
GridSizePlusOne(lo, hi, res, pad) == IntDiv(hi - lo, res) + 1 + 2 * pad

\* int((max - min) / resolution) + 2 * padding
GridSize(lo, hi, res, pad) == IntDiv(hi - lo, res) + 2 * pad

\* int((x - min) / resolution) + padding
Cell(v, lo, res, pad) == IntDiv(v - lo, res) + pad

\* a mutant of Origin: the padding is added instead of subtracted
OriginPlus(lo, pad, res) == lo + pad * res

\* min - padding * resolution
Origin(lo, pad, res) == lo - pad * res

\* the edges of the closed ring
Edges(poly) ==
    {<<poly[i], poly[(i % Len(poly)) + 1]>> : i \in 1..Len(poly)}

OnEdge(c, r, e) ==
    LET a == e[1]
        b == e[2]
    IN  /\ (b[1] - a[1]) * (r - a[2]) = (b[2] - a[2]) * (c - a[1])
        /\ (IF a[1] <= b[1] THEN a[1] <= c /\ c <= b[1] ELSE b[1] <= c /\ c <= a[1])
        /\ (IF a[2] <= b[2] THEN a[2] <= r /\ r <= b[2] ELSE b[2] <= r /\ r <= a[2])

\* the edge joining poly[i] to its successor crosses the ray going right from (c, r)
Crosses(c, r, poly, i) ==
    LET a == poly[i]
        b == poly[(i % Len(poly)) + 1]
        t == (a[1] - c) * (b[2] - a[2]) + (r - a[2]) * (b[1] - a[1])
    IN  /\ (a[2] > r) # (b[2] > r)
        /\ IF b[2] > a[2] THEN t > 0 ELSE t < 0

\* draw.polygon(poly, fill=205) on a w x h image: the cells inside the ring
\* (even-odd) and the cells on its edges, clipped to the image
Polygon(poly, w, h) ==
    {cell \in (0..(w - 1)) \X (0..(h - 1)) :
        \/ \E e \in Edges(poly) : OnEdge(cell[1], cell[2], e)
        \/ Cardinality({i \in 1..Len(poly) : Crosses(cell[1], cell[2], poly, i)}) % 2 = 1}

Files == {"map_fixed.pgm", "map_fixed.png", "map.yaml"}

Absent == [state |-> "absent"]

Partial == [state |-> "partial"]

\* a file an earlier run left at the path
Stale == [state |-> "stale"]

Raster(fmt, img) == [state |-> "complete", format |-> fmt, size |-> img.size, px |-> img.px]

Yaml(res, lo_x, lo_y, pad) ==
    [state |-> "complete",
     image |-> "map_fixed.pgm",
     resolution |-> res,
     origin |-> <<Origin(lo_x, pad, res), Origin(lo_y, pad, res), 0>>,
     occupied_thresh |-> "0.65",
     free_thresh |-> "0.196",
     negate |-> 0]

\* what a failed write leaves at the path: what was there (the open failed, or
\* the file it created was removed), or a truncated file
FailedWrite(prev) == {prev, Partial}

----------------------------------------------------------------------------
(* gpsToNav2map.py *)

Inputs == UNION {[1..k -> YCoords \X XCoords] : k \in 0..MaxPts}

\* the four corners of a square of 10 m, in any order
SquareCorners == {<<0, 0>>, <<0, 20>>, <<20, 20>>, <<20, 0>>}

SquareInputs ==
    {s \in [1..4 -> SquareCorners] : \A i, j \in 1..4 : i # j => s[i] # s[j]}

MainIdle ==
    /\ pcM = "idle"
    /\ errM = "none"
    /\ args = None
    /\ water_gdf = 0
    /\ tags_list = <<>>
    /\ todo = <<>>
    /\ file_name = None
    /\ disk = {}
    /\ fetched = FALSE

GpsStart(rows, res, pad, old) ==
    /\ pc = "load"
    /\ err = "none"
    /\ data = rows
    /\ utm_points = <<>>
    /\ min_x = None /\ min_y = None /\ max_x = None /\ max_y = None
    /\ resolution = res
    /\ padding = pad
    /\ centroid_x = None /\ centroid_y = None
    /\ utm_points_sorted = <<>>
    /\ perm = <<>>
    /\ width = None /\ height = None
    /\ image = None
    /\ polygon_points = <<>>
    /\ fs = [f \in Files |-> old]

\* the output directory is empty, or holds the artifacts of an earlier run
Init ==
    /\ \E rows \in Inputs, res \in ResSet, pad \in PadSet, old \in {Absent, Stale} :
          GpsStart(rows, res, pad, old)
    /\ MainIdle

InitSquare ==
    /\ \E rows \in SquareInputs, old \in {Absent, Stale} :
          GpsStart(rows, SrcResolution, SrcPadding, old)
    /\ MainIdle

Fail(e) ==
    /\ pc' = "failed"
    /\ err' = e

\* lines 9-18
Project ==
    /\ pc = "load"
    /\ UNCHANGED mainVars
    /\ utm_points' = [i \in 1..Len(data) |-> Transform(data[i])]
    /\ pc' = "bounds"
    /\ UNCHANGED <<err, data, min_x, min_y, max_x, max_y, resolution, padding,
                   centroid_x, centroid_y, utm_points_sorted, perm, width, height,
                   image, polygon_points, fs>>

\* lines 21-25: min() of an empty list raises ValueError
Bounds ==
    /\ pc = "bounds"
    /\ UNCHANGED mainVars
    /\ IF utm_points = <<>>
       THEN /\ Fail("ValueError")
            /\ UNCHANGED <<min_x, min_y, max_x, max_y>>
       ELSE /\ min_x' = SeqMin(utm_points, 1)
            /\ min_y' = SeqMin(utm_points, 2)
            /\ max_x' = SeqMax(utm_points, 1)
            /\ max_y' = SeqMax(utm_points, 2)
            /\ pc' = "centroid"
            /\ UNCHANGED err
    /\ UNCHANGED <<data, utm_points, resolution, padding, centroid_x, centroid_y,
                   utm_points_sorted, perm, width, height, image, polygon_points, fs>>

\* lines 28-29
Centroid ==
    /\ pc = "centroid"
    /\ UNCHANGED mainVars
    /\ centroid_x' = <<SeqSum(utm_points, 1), Len(utm_points)>>
    /\ centroid_y' = <<SeqSum(utm_points, 2), Len(utm_points)>>
    /\ pc' = "order"
    /\ UNCHANGED <<err, data, utm_points, min_x, min_y, max_x, max_y, resolution,
                   padding, utm_points_sorted, perm, width, height, image,
                   polygon_points, fs>>

\* lines 32-35: sorted() is stable
Order ==
    /\ pc = "order"
    /\ UNCHANGED mainVars
    /\ LET idx == SortedIdx(utm_points, Len(utm_points), centroid_x, centroid_y)
       IN  /\ perm' = idx
           /\ utm_points_sorted' = [i \in 1..Len(idx) |-> utm_points[idx[i]]]
    /\ pc' = "alloc"
    /\ UNCHANGED <<err, data, utm_points, min_x, min_y, max_x, max_y, resolution,
                   padding, centroid_x, centroid_y, width, height, image,
                   polygon_points, fs>>

\* lines 38-42: a zero resolution raises ZeroDivisionError, a negative size
\* makes Image.new raise ValueError
Allocate ==
    /\ pc = "alloc"
    /\ UNCHANGED mainVars
    /\ IF resolution = 0
       THEN /\ Fail("ZeroDivisionError")
            /\ UNCHANGED <<width, height, image>>
       ELSE LET w == GridSize(min_x, max_x, resolution, padding)
                h == GridSize(min_y, max_y, resolution, padding)
            IN  /\ width' = w
                /\ height' = h
                /\ IF w < 0 \/ h < 0
                   THEN /\ Fail("ValueError")
                        /\ UNCHANGED image
                   ELSE /\ image' = [size |-> <<w, h>>, px |-> {}]
                        /\ pc' = "map"
                        /\ UNCHANGED err
    /\ UNCHANGED <<data, utm_points, min_x, min_y, max_x, max_y, resolution, padding,
                   centroid_x, centroid_y, utm_points_sorted, perm, polygon_points, fs>>

\* lines 46-49
MapPoints ==
    /\ pc = "map"
    /\ UNCHANGED mainVars
    /\ polygon_points' =
          [i \in 1..Len(utm_points_sorted) |->
              <<Cell(utm_points_sorted[i][1], min_x, resolution, padding),
                Cell(utm_points_sorted[i][2], min_y, resolution, padding)>>]
    /\ pc' = "fill"
    /\ UNCHANGED <<err, data, utm_points, min_x, min_y, max_x, max_y, resolution,
                   padding, centroid_x, centroid_y, utm_points_sorted, perm, width,
                   height, image, fs>>

\* line 52: fewer than two coordinates raise TypeError
FillPolygon ==
    /\ pc = "fill"
    /\ UNCHANGED mainVars
    /\ IF Len(polygon_points) < 2
       THEN /\ Fail("TypeError")
            /\ UNCHANGED image
       ELSE /\ image' = [image EXCEPT !.px = Polygon(polygon_points, width, height)]
            /\ pc' = "save_pgm"
            /\ UNCHANGED err
    /\ UNCHANGED <<data, utm_points, min_x, min_y, max_x, max_y, resolution, padding,
                   centroid_x, centroid_y, utm_points_sorted, perm, width, height,
                   polygon_points, fs>>

\* line 55
SavePgm ==
    /\ pc = "save_pgm"
    /\ UNCHANGED mainVars
    /\ \E ok \in BOOLEAN :
          IF ok
          THEN /\ fs' = [fs EXCEPT !["map_fixed.pgm"] = Raster("pgm", image)]
               /\ pc' = "save_png"
               /\ UNCHANGED err
          ELSE /\ \E left \in FailedWrite(fs["map_fixed.pgm"]) : fs' = [fs EXCEPT !["map_fixed.pgm"] = left]
               /\ Fail("OSError")
    /\ UNCHANGED <<data, utm_points, min_x, min_y, max_x, max_y, resolution, padding,
                   centroid_x, centroid_y, utm_points_sorted, perm, width, height,
                   image, polygon_points>>

\* line 56
SavePng ==
    /\ pc = "save_png"
    /\ UNCHANGED mainVars
    /\ \E ok \in BOOLEAN :
          IF ok
          THEN /\ fs' = [fs EXCEPT !["map_fixed.png"] = Raster("png", image)]
               /\ pc' = "write_yaml"
               /\ UNCHANGED err
          ELSE /\ \E left \in FailedWrite(fs["map_fixed.png"]) : fs' = [fs EXCEPT !["map_fixed.png"] = left]
               /\ Fail("OSError")
    /\ UNCHANGED <<data, utm_points, min_x, min_y, max_x, max_y, resolution, padding,
                   centroid_x, centroid_y, utm_points_sorted, perm, width, height,
                   image, polygon_points>>

\* a mutant of WriteYaml: the metadata is written before the second raster
WriteYamlEarly ==
    /\ pc = "save_png"
    /\ UNCHANGED mainVars
    /\ fs' = [fs EXCEPT !["map.yaml"] = Yaml(resolution, min_x, min_y, padding)]
    /\ pc' = "done"
    /\ UNCHANGED <<err, data, utm_points, min_x, min_y, max_x, max_y, resolution, padding,
                   centroid_x, centroid_y, utm_points_sorted, perm, width, height,
                   image, polygon_points>>

\* lines 59-65
WriteYaml ==
    /\ pc = "write_yaml"
    /\ UNCHANGED mainVars
    /\ \E ok \in BOOLEAN :
          IF ok
          THEN /\ fs' = [fs EXCEPT !["map.yaml"] = Yaml(resolution, min_x, min_y, padding)]
               /\ pc' = "done"
               /\ UNCHANGED err
          ELSE /\ \E left \in FailedWrite(fs["map.yaml"]) : fs' = [fs EXCEPT !["map.yaml"] = left]
               /\ Fail("OSError")
    /\ UNCHANGED <<data, utm_points, min_x, min_y, max_x, max_y, resolution, padding,
                   centroid_x, centroid_y, utm_points_sorted, perm, width, height,
                   image, polygon_points>>

Next ==
    \/ Project
    \/ Bounds
    \/ Centroid
    \/ Order
    \/ Allocate
    \/ MapPoints
    \/ FillPolygon
    \/ SavePgm
    \/ SavePng
    \/ WriteYaml

Spec == Init /\ [][Next]_vars

SpecSquare == InitSquare /\ [][Next]_vars

----------------------------------------------------------------------------
(* maplayer.py *)

MaxWays == 2

NameTags == {None, "See"}

LocTags == {None, "Uni"}

\* a fetched way: its tags (the points play no part in main's control flow)
Ways == [name : NameTags, loc_name : LocTags]

WaySeqs(n) == UNION {[1..k -> Ways] : k \in 0..n}

\* tags.get("name", "water_layer"), tags.get("loc_name", "")
BaseName(tags) ==
    <<IF tags.name = None THEN "water_layer" ELSE tags.name,
      IF tags.loc_name = None THEN "" ELSE tags.loc_name>>

\* <<name, loc_name, k>> is "name_loc.csv" for k = 0 and "name_loc_k.csv" otherwise
CsvName(base, k) == <<base[1], base[2], k>>

\* the while loop of save_lat_lon_csv: the first of base, base_1, base_2, ...
\* that is not on disk
UniqueName(base, files) ==
    LET k == CHOOSE k \in 0..Cardinality(files) :
                 /\ CsvName(base, k) \notin files
                 /\ \A j \in 0..(k - 1) : CsvName(base, j) \in files
    IN  CsvName(base, k)

ImageName(name) == <<"colored.png", name>>

GpsIdle ==
    /\ pc = "idle"
    /\ err = "none"
    /\ data = <<>>
    /\ utm_points = <<>>
    /\ min_x = None /\ min_y = None /\ max_x = None /\ max_y = None
    /\ resolution = SrcResolution
    /\ padding = SrcPadding
    /\ centroid_x = None /\ centroid_y = None
    /\ utm_points_sorted = <<>>
    /\ perm = <<>>
    /\ width = None /\ height = None
    /\ image = None
    /\ polygon_points = <<>>
    /\ fs = [f \in Files |-> Absent]

\* the state after parser.parse_args()
InitMain ==
    /\ GpsIdle
    /\ pcM = "fetch"
    /\ errM = "none"
    /\ args \in [osm_link : {None, "way", "other"}, coords : {"number", "text"}]
    /\ water_gdf = 0
    /\ tags_list = <<>>
    /\ todo = <<>>
    /\ file_name = None
    /\ disk \in SUBSET {CsvName(<<"water_layer", "">>, 0), CsvName(<<"water_layer", "">>, 1)}
    /\ fetched = FALSE

FailM(e) ==
    /\ pcM' = "failed"
    /\ errM' = e

\* lines 187-188 and fetch_data_from_osm_link: a link without /way/<id> raises
\* ValueError, the request may fail, and at most one way has the id asked for
FetchLink ==
    /\ pcM = "fetch"
    /\ args.osm_link # None
    /\ UNCHANGED gpsVars
    /\ IF args.osm_link # "way"
       THEN /\ FailM("ValueError")
            /\ UNCHANGED <<water_gdf, tags_list, todo, fetched>>
       ELSE \E ok \in BOOLEAN, ways \in WaySeqs(1) :
               IF ok
               THEN /\ water_gdf' = Len(ways)
                    /\ tags_list' = ways
                    /\ todo' = ways
                    /\ fetched' = TRUE
                    /\ pcM' = "loop"
                    /\ UNCHANGED errM
               ELSE /\ FailM("RequestException")
                    /\ UNCHANGED <<water_gdf, tags_list, todo, fetched>>
    /\ UNCHANGED <<args, file_name, disk>>

\* lines 189-219 and fetch_osm_data: float() of a malformed coordinate raises
\* ValueError, the request may fail, and every closed way of the area is returned
FetchArea ==
    /\ pcM = "fetch"
    /\ args.osm_link = None
    /\ UNCHANGED gpsVars
    /\ IF args.coords # "number"
       THEN /\ FailM("ValueError")
            /\ UNCHANGED <<water_gdf, tags_list, todo, fetched>>
       ELSE \E ok \in BOOLEAN, ways \in WaySeqs(MaxWays) :
               IF ok
               THEN /\ water_gdf' = Len(ways)
                    /\ tags_list' = ways
                    /\ todo' = ways
                    /\ fetched' = TRUE
                    /\ pcM' = "loop"
                    /\ UNCHANGED errM
               ELSE /\ FailM("RequestException")
                    /\ UNCHANGED <<water_gdf, tags_list, todo, fetched>>
    /\ UNCHANGED <<args, file_name, disk>>

\* lines 222-223: one iteration of the for loop, with save_lat_lon_csv
SaveCsv ==
    /\ pcM = "loop"
    /\ todo # <<>>
    /\ UNCHANGED gpsVars
    /\ LET name == UniqueName(BaseName(Head(todo)), disk)
       IN  /\ disk' = disk \cup {name}
           /\ file_name' = name
    /\ todo' = Tail(todo)
    /\ UNCHANGED <<pcM, errM, args, water_gdf, tags_list, fetched>>

\* line 225: reading file_name before any iteration bound it raises
\* UnboundLocalError; otherwise create_colored_image saves the picture
CreateImage ==
    /\ pcM = "loop"
    /\ todo = <<>>
    /\ UNCHANGED gpsVars
    /\ IF file_name = None
       THEN /\ FailM("UnboundLocalError")
            /\ UNCHANGED disk
       ELSE /\ disk' = disk \cup {ImageName(file_name)}
            /\ pcM' = "print"
            /\ UNCHANGED errM
    /\ UNCHANGED <<args, water_gdf, tags_list, todo, file_name, fetched>>

\* line 227
Completed ==
    /\ pcM = "print"
    /\ UNCHANGED gpsVars
    /\ pcM' = "done"
    /\ UNCHANGED <<errM, args, water_gdf, tags_list, todo, file_name, disk, fetched>>

NextMain ==
    \/ FetchLink
    \/ FetchArea
    \/ SaveCsv
    \/ CreateImage
    \/ Completed

SpecMain == InitMain /\ [][NextMain]_vars

----------------------------------------------------------------------------
(* Properties of gpsToNav2map.py *)

Stages == <<"load", "bounds", "centroid", "order", "alloc", "map", "fill",
            "save_pgm", "save_png", "write_yaml", "done">>

StagesFrom(stage) ==
    {Stages[i] : i \in {j \in 1..Len(Stages) :
                           \E k \in 1..j : Stages[k] = stage}}

\* the script ended, one way or the other
Ended == pc \in {"done", "failed"}

\* utm_points_sorted is set
Ordered ==
    \/ pc \in StagesFrom("alloc")
    \/ pc = "failed" /\ err \in {"ZeroDivisionError", "TypeError", "OSError"}

\* width, height and polygon_points are set
Mapped ==
    \/ pc \in StagesFrom("fill")
    \/ pc = "failed" /\ err \in {"TypeError", "OSError"}

\* draw.polygon has returned
Filled ==
    \/ pc \in StagesFrom("save_pgm")
    \/ pc = "failed" /\ err = "OSError"

\* the run neither created nor changed the file
Untouched(f) == fs[f].state \in {"absent", "stale"}

Written(f) == fs[f].state = "complete"

DistinctPoints == {data[i] : i \in 1..Len(data)}

Lats == {data[i][1] : i \in 1..Len(data)}

Lons == {data[i][2] : i \in 1..Len(data)}

\* the smallest integer that is not below a / b, for a >= 0 and b > 0
CeilDiv(a, b) == (a + b - 1) \div b

ValidInput ==
    /\ Cardinality(DistinctPoints) >= 3
    /\ Cardinality(Lats) > 1
    /\ Cardinality(Lons) > 1
    /\ resolution > 0
    /\ padding >= 0

\* C1: for every valid input the grid is ceil((max_x - min_x) / resolution)
\* + 2 * padding cells wide and ceil((max_y - min_y) / resolution) + 2 * padding
\* cells high, also when the extent is no multiple of the resolution.
C1_GridDimensionsAreCeil ==
    (Mapped /\ ValidInput) =>
        /\ width = CeilDiv(max_x - min_x, resolution) + 2 * padding
        /\ height = CeilDiv(max_y - min_y, resolution) + 2 * padding

\* C2: when a run has ended, the three artifacts are either all written by it
\* or none of them is; a failed run leaves none.  (Stated for the runs of a
\* valid input and for completely written files only: a truncated file left
\* by the failing write itself is not even counted.)
C2_NoPartialOutput ==
    (Ended /\ ValidInput) =>
        /\ pc = "failed" => \A f \in Files : ~Written(f)
        /\ \/ \A f \in Files : ~Written(f)
           \/ \A f \in Files : Written(f)

\* C3: with fewer than 3 distinct boundary points the run does not complete
\* and writes neither a raster nor the metadata file.  (Whatever the error is
\* called; stated for a positive resolution and a positive padding.)
C3_FewPointsWriteNothing ==
    (Cardinality(DistinctPoints) < 3 /\ resolution > 0 /\ padding > 0) =>
        /\ pc # "done"
        /\ \A f \in Files : ~Written(f)

DegenerateExtent ==
    \/ Cardinality(Lats) = 1
    \/ Cardinality(Lons) = 1
    \/ resolution <= 0

\* C4: with a bounding box of zero width or zero height, or a resolution <= 0,
\* the run stops before a grid is allocated and writes no file.  (Whatever the
\* error is called; stated for at least 3 distinct points and a positive
\* padding.)
C4_DegenerateExtentStops ==
    (DegenerateExtent /\ Cardinality(DistinctPoints) >= 3 /\ padding > 0) =>
        /\ pc \notin StagesFrom("map")
        /\ \A f \in Files : ~Written(f)

Cols == {c[1] : c \in image.px}

Rows == {c[2] : c \in image.px}

Least(S) == CHOOSE m \in S : \A n \in S : m <= n

Greatest(S) == CHOOSE m \in S : \A n \in S : m >= n

\* the interior cells are one full rectangle of cells
OneBlock ==
    /\ image.px # {}
    /\ image.px = (Least(Cols)..Greatest(Cols)) \X (Least(Rows)..Greatest(Rows))

\* exterior columns and rows on the four sides of the block
MarginLeft == Least(Cols)

MarginTop == Least(Rows)

MarginRight == width - 1 - Greatest(Cols)

MarginBottom == height - 1 - Greatest(Rows)

\* C5 (as stated): for the square (0,0),(0,10),(10,10),(10,0) with resolution
\* 0.5 and padding 10 the grid is 40 x 40 and the interior cells are one block
\* with exactly 10 exterior columns or rows on each of the four sides.
C5_TenCellsOnEverySide ==
    Filled =>
        /\ width = 40 /\ height = 40
        /\ OneBlock
        /\ MarginLeft = 10 /\ MarginTop = 10
        /\ MarginRight = 10 /\ MarginBottom = 10

\* C5 (amended): for that square the grid is 40 x 40 and the interior cells
\* are one block of 21 x 21 cells, columns and rows 10 to 30: 10 exterior
\* columns on the left and 10 rows at the top (row 0), but 9 on the right and
\* 9 at the bottom.
C5_SquareBlock ==
    Filled =>
        /\ width = 40 /\ height = 40
        /\ image.size = <<40, 40>>
        /\ OneBlock
        /\ image.px = (10..30) \X (10..30)
        /\ MarginLeft = 10 /\ MarginTop = 10
        /\ MarginRight = 9 /\ MarginBottom = 9

C5_Witness ==
    /\ pc = "done"
    /\ Written("map_fixed.pgm")
    /\ fs["map_fixed.pgm"].px = image.px
    /\ Cardinality(image.px) = 441
    /\ data[1] = <<20, 20>>

\* C6: the origin recorded in map.yaml is (min_x - padding * resolution,
\* min_y - padding * resolution, 0) with min_x and min_y the least coordinates
\* of the projected points, and for a positive resolution every ring point
\* lies in the cell it is mapped to:
\* origin + cell * resolution <= coordinate < origin + (cell + 1) * resolution.
C6_OriginConsistent ==
    Written("map.yaml") =>
        LET o == fs["map.yaml"].origin
            n == Len(utm_points_sorted)
        IN  /\ o[3] = 0
            /\ \E i \in 1..n : utm_points[i][1] = o[1] + padding * resolution
            /\ \E i \in 1..n : utm_points[i][2] = o[2] + padding * resolution
            /\ \A i \in 1..n :
                  /\ utm_points[i][1] >= o[1] + padding * resolution
                  /\ utm_points[i][2] >= o[2] + padding * resolution
            /\ resolution > 0 =>
                  \A i \in 1..n : \A k \in 1..2 :
                      LET v == utm_points_sorted[i][k]
                          cell == polygon_points[i][k]
                      IN  /\ o[k] + cell * resolution <= v
                          /\ v < o[k] + (cell + 1) * resolution

C6_Witness ==
    /\ pc = "done"
    /\ Written("map.yaml")
    /\ resolution = 2
    /\ padding = 1
    /\ \E i \in 1..Len(utm_points) : (utm_points[i][1] - min_x) % resolution # 0
    /\ fs["map.yaml"].origin[1] = min_x - 2

\* the angle of utm_points_sorted[i] is below that of utm_points_sorted[j]
SortedLess(i, j) ==
    angle_less(utm_points_sorted[i], utm_points_sorted[j], centroid_x, centroid_y)

\* C7: the ordered ring is a permutation of the projected points of the same
\* length (duplicates kept), in ascending order of the angle around the
\* centroid, and points of equal angle keep their input order.
C7_StableAngularSort ==
    Ordered =>
        LET n == Len(utm_points) IN
        /\ Len(utm_points_sorted) = n
        /\ Len(perm) = n
        /\ {perm[i] : i \in 1..n} = 1..n
        /\ \A i \in 1..n : utm_points_sorted[i] = utm_points[perm[i]]
        /\ centroid_x = <<SeqSum(utm_points, 1), n>>
        /\ centroid_y = <<SeqSum(utm_points, 2), n>>
        /\ \A i, j \in 1..n :
              i < j => /\ ~SortedLess(j, i)
                       /\ ~SortedLess(i, j) => perm[i] < perm[j]

\* two different points of equal angle, in an input the sort had to reorder
C7_Witness ==
    /\ Ordered
    /\ \E i, j \in 1..Len(utm_points_sorted) :
          /\ i < j
          /\ utm_points_sorted[i] # utm_points_sorted[j]
          /\ ~SortedLess(i, j)
          /\ ~SortedLess(j, i)
    /\ \E i \in 1..Len(perm) : perm[i] # i

ThisRun(f) == fs[f].state \in {"partial", "complete"}

\* C8: for every valid input, padding 0 included, every ring point is mapped
\* to a cell of the grid: 0 <= col < width and 0 <= row < height.
C8_PointsInsideGrid ==
    (Mapped /\ ValidInput) =>
        \A i \in 1..Len(polygon_points) :
            /\ 0 <= polygon_points[i][1] /\ polygon_points[i][1] < width
            /\ 0 <= polygon_points[i][2] /\ polygon_points[i][2] < height

\* C9: whenever this run's map.yaml is on disk, complete or not, both rasters
\* have been written by this run, and a complete map.yaml names one of them.
C9_YamlAfterRasters ==
    /\ ThisRun("map.yaml") =>
          /\ Written("map_fixed.pgm")
          /\ Written("map_fixed.png")
          /\ pc \in {"done", "failed"}
    /\ Written("map.yaml") =>
          /\ fs["map.yaml"].image \in Files
          /\ Written(fs["map.yaml"].image)
          /\ fs[fs["map.yaml"].image].size = <<width, height>>

C9_Witness ==
    /\ pc = "failed"
    /\ fs["map.yaml"] = Partial
    /\ Written("map_fixed.pgm")
    /\ Written("map_fixed.png")

----------------------------------------------------------------------------
(* Properties of maplayer.py *)

\* C10: once a fetch has returned, with zero, one or several ways, main does
\* not abort: it reaches create_colored_image with file_name bound and then
\* the final print.
C10_MainCompletes ==
    fetched =>
        /\ pcM # "failed"
        /\ pcM \in {"print", "done"} => file_name # None

====
